---- MODULE Spec2Model ----
(***************************************************************************)
(* Model of the ERATV pipeline workers:                                    *)
(*   parser_liste_csv/worker.py          the list reconciler               *)
(*   scraper_type_vehicule_html/worker.py the detail-page fetcher          *)
(* A text is a sequence of one-character strings; a cell of a CSV row or   *)
(* of a database row is a record [k, s, n]: k = "null" (NaN / None / SQL   *)
(* NULL), k = "str" (text s) or k = "int" (number n, as pandas parses an   *)
(* all-digit column).                                                      *)
(***************************************************************************)
EXTENDS Integers, Sequences, FiniteSets, TLC

\* ------------------------------------------------------------------------
\* Bounds of the model
\* ------------------------------------------------------------------------
MaxRows == 2
MaxDeliveries == 2

\* ------------------------------------------------------------------------
\* Program constants
\* ------------------------------------------------------------------------
max_retries == 10

\* ------------------------------------------------------------------------
\* Values
\* ------------------------------------------------------------------------
Null == [k |-> "null", s |-> <<>>, n |-> 0]
Text(s) == [k |-> "str", s |-> s, n |-> 0]
Num(n) == [k |-> "int", s |-> <<>>, n |-> n]

DigitChars == <<"0", "1", "2", "3", "4", "5", "6", "7", "8", "9">>

RECURSIVE IntStr(_)
IntStr(n) == IF n < 10 THEN <<DigitChars[n + 1]>>
             ELSE IntStr(n \div 10) \o <<DigitChars[(n % 10) + 1]>>

\* str(val) of a non-null cell
PyStr(val) == IF val.k = "str" THEN val.s ELSE IntStr(val.n)

IsSpace(c) == c = " "

RECURSIVE LStrip(_)
LStrip(s) == IF s = <<>> THEN <<>>
             ELSE IF IsSpace(Head(s)) THEN LStrip(Tail(s)) ELSE s

RECURSIVE RStrip(_)
RStrip(s) == IF s = <<>> THEN <<>>
             ELSE IF IsSpace(s[Len(s)]) THEN RStrip(SubSeq(s, 1, Len(s) - 1)) ELSE s

\* str.strip()
Strip(s) == RStrip(LStrip(s))

\* pd.isna(val)
IsNa(val) == val.k = "null"

normalize_NoStrip(val) == IF IsNa(val) THEN <<>> ELSE PyStr(val)
normalize(val) == IF IsNa(val) THEN <<>> ELSE Strip(PyStr(val))

\* ------------------------------------------------------------------------
\* Snapshot file and Persisted Table
\* ------------------------------------------------------------------------
Columns == <<"Type_ID", "Authorisation_document_reference (EIN)", "Type_Name",
             "Authorisation_Status", "Last_Update", "ERA_URL">>
ColumnSet == {Columns[i] : i \in 1..Len(Columns)}

\* tracked columns of liste_eratv, in the order of Columns[2..6]
Tracked == <<"authorisation_document_reference_ein", "type_name",
             "authorisation_status", "last_update", "url_tv">>
TrackedSet == {Tracked[i] : i \in 1..Len(Tracked)}


\* a CSV row with the given Type_ID cell whose tracked column number f holds
\* cell v, every other tracked column holding the text "a"
CsvRow(id, f, v) ==
    [c \in ColumnSet |->
        IF c = Columns[1] THEN id
        ELSE IF c = Columns[f + 1] THEN v
        ELSE Text(<<"a">>)]

\* a row of liste_eratv
DbRow(id, f, v) ==
    [type_id |-> id,
     authorisation_document_reference_ein |-> IF f = 1 THEN v ELSE Text(<<"a">>),
     type_name |-> IF f = 2 THEN v ELSE Text(<<"a">>),
     authorisation_status |-> IF f = 3 THEN v ELSE Text(<<"a">>),
     last_update |-> IF f = 4 THEN v ELSE Text(<<"a">>),
     url_tv |-> IF f = 5 THEN v ELSE Text(<<"a">>)]

CsvIds == {Null, Text(<<" ", "T">>)}
CsvCells == {Num(7), Null}
DbIds == {Text(<<"T">>)}
DbCells == {Text(<<"7", " ">>), Null}

CsvRows(f) == {CsvRow(id, f, v) : id \in CsvIds, v \in CsvCells}
DbRows(f) == {DbRow(id, f, v) : id \in DbIds, v \in DbCells}

RECURSIVE SeqsUpTo(_, _)
SeqsUpTo(S, n) ==
    IF n = 0 THEN {<<>>}
    ELSE LET shorter == SeqsUpTo(S, n - 1)
         IN  shorter \cup {Append(q, x) : q \in {p \in shorter : Len(p) = n - 1}, x \in S}

\* readable snapshots whose header has every expected column
GoodFiles(f) ==
    {[readable |-> TRUE, columns |-> ColumnSet, rows |-> r] :
        r \in SeqsUpTo(CsvRows(f), MaxRows)}

\* a file that cannot be read or parsed, and files whose header lacks a column
BadFiles ==
    {[readable |-> FALSE, columns |-> {}, rows |-> <<>>]}
    \cup {[readable |-> TRUE, columns |-> ColumnSet \ {c}, rows |-> r] :
            c \in ColumnSet,
            r \in {<<>>, <<CsvRow(Text(<<"T">>), 1, Text(<<"a">>))>>}}

InitTables(f) == {<<>>} \cup {<<r>> : r \in DbRows(f)}

\* body of the list-ready message (scraper_liste_html: send_csv_ready_message)
CsvReadyMessage == "CSV ready: /app/data/csv_listes/liste_vehicules.csv"

\* ------------------------------------------------------------------------
\* connect_postgres: nfail is the number of consecutive OperationalErrors the
\* store answers with before it accepts a connection
\* ------------------------------------------------------------------------
FailCounts == {0, max_retries - 1, max_retries}

connect_postgres_Silent(nfail) ==
    [ok |-> TRUE, attempt |-> IF nfail < max_retries THEN nfail + 1 ELSE max_retries]
connect_postgres(nfail) ==
    IF nfail < max_retries
    THEN [ok |-> TRUE, attempt |-> nfail + 1]
    ELSE [ok |-> FALSE, attempt |-> max_retries]

\* ------------------------------------------------------------------------
\* process_csv: the per-row computation
\* ------------------------------------------------------------------------
\* lines 101-106: the six normalized values of a snapshot row
RowVals(row) ==
    [type_id |-> normalize(row["Type_ID"]),
     authorisation_document_reference_ein |->
         normalize(row["Authorisation_document_reference (EIN)"]),
     type_name |-> normalize(row["Type_Name"]),
     authorisation_status |-> normalize(row["Authorisation_Status"]),
     last_update |-> normalize(row["Last_Update"]),
     url_tv |-> normalize(row["ERA_URL"])]

\* SELECT * FROM liste_eratv WHERE type_id = %s : the matching positions
SelectByTypeId_None(t, key) == {}
SelectByTypeId(t, key) ==
    {i \in 1..Len(t) : t[i].type_id.k = "str" /\ t[i].type_id.s = key}

\* lines 112-118
changed_NoUrl(existing, vals) ==
    \/ normalize(existing.authorisation_document_reference_ein)
           # vals.authorisation_document_reference_ein
    \/ normalize(existing.type_name) # vals.type_name
    \/ normalize(existing.authorisation_status) # vals.authorisation_status
    \/ normalize(existing.last_update) # vals.last_update
changed(existing, vals) ==
    \/ normalize(existing.authorisation_document_reference_ein)
           # vals.authorisation_document_reference_ein
    \/ normalize(existing.type_name) # vals.type_name
    \/ normalize(existing.authorisation_status) # vals.authorisation_status
    \/ normalize(existing.last_update) # vals.last_update
    \/ normalize(existing.url_tv) # vals.url_tv

\* the branch taken for a row: found is the sequence of 0 or 1 row fetchone gave
Classify_NoUpdate(found, vals) ==
    IF found # <<>> THEN "UNCHANGED" ELSE "INSERT"
Classify(found, vals) ==
    IF found # <<>>
    THEN IF changed(found[1], vals) THEN "UPDATE" ELSE "UNCHANGED"
    ELSE "INSERT"

\* UPDATE liste_eratv SET ... WHERE type_id = %s
SqlUpdate_KeepUrl(t, vals) ==
    [i \in 1..Len(t) |->
        IF i \in SelectByTypeId(t, vals.type_id)
        THEN [type_id |-> t[i].type_id,
              authorisation_document_reference_ein |->
                  Text(vals.authorisation_document_reference_ein),
              type_name |-> Text(vals.type_name),
              authorisation_status |-> Text(vals.authorisation_status),
              last_update |-> Text(vals.last_update),
              url_tv |-> t[i].url_tv]
        ELSE t[i]]
SqlUpdate(t, vals) ==
    [i \in 1..Len(t) |->
        IF i \in SelectByTypeId(t, vals.type_id)
        THEN [type_id |-> t[i].type_id,
              authorisation_document_reference_ein |->
                  Text(vals.authorisation_document_reference_ein),
              type_name |-> Text(vals.type_name),
              authorisation_status |-> Text(vals.authorisation_status),
              last_update |-> Text(vals.last_update),
              url_tv |-> Text(vals.url_tv)]
        ELSE t[i]]

\* INSERT INTO liste_eratv(...) VALUES (...)
SqlInsert_Replace(t, vals) ==
    <<[type_id |-> Text(vals.type_id),
       authorisation_document_reference_ein |->
           Text(vals.authorisation_document_reference_ein),
       type_name |-> Text(vals.type_name),
       authorisation_status |-> Text(vals.authorisation_status),
       last_update |-> Text(vals.last_update),
       url_tv |-> Text(vals.url_tv)]>>
SqlInsert(t, vals) ==
    Append(t, [type_id |-> Text(vals.type_id),
               authorisation_document_reference_ein |->
                   Text(vals.authorisation_document_reference_ein),
               type_name |-> Text(vals.type_name),
               authorisation_status |-> Text(vals.authorisation_status),
               last_update |-> Text(vals.last_update),
               url_tv |-> Text(vals.url_tv)])

\* the table after the row's statement and db_conn.commit()
Committed_InsertOnly(t, class, vals) ==
    IF class = "INSERT" THEN SqlInsert(t, vals) ELSE t
Committed(t, class, vals) ==
    IF class = "INSERT" THEN SqlInsert(t, vals)
    ELSE IF class = "UPDATE" THEN SqlUpdate(t, vals)
    ELSE t

\* the branches of the loop that call channel_out.basic_publish (lines 131, 145)
Publishes_Always(class) == TRUE
Publishes_InsertOnly(class) == class = "INSERT"
Publishes(class) == class # "UNCHANGED"

\* body of the change notification (basic_publish body=url_tv)
NotificationBody(vals) == vals.url_tv


\* ------------------------------------------------------------------------
\* State
\* ------------------------------------------------------------------------
VARIABLES
    file,            \* the snapshot file the list-ready message names
    table,           \* liste_eratv: the committed rows
    queue_in,        \* csv_list.queue: the messages waiting for delivery
    deliveries,      \* deliveries of the message made so far
    pc,              \* position of the reconciler: "idle", "read_csv", "rows"
    refused,         \* connect_postgres: connections the store refused
    attempt,         \* connect_postgres: the attempt it ended at
    idx,             \* process_csv: snapshot rows iterated over
    inserted_count,
    updated_count,
    published,       \* bodies passed to basic_publish during this callback
    log,             \* per iterated row: table before, branch, row found, values
    disp,            \* how the last callback ended: "none", "ack", "nack"
    fault,           \* what raised in this callback, "none" if nothing did
    table0,          \* the table when this callback began
    synced,          \* the previous callback ran process_csv to completion
    owed,            \* keys committed whose notification was never published
    vehicle_pages,   \* vehicle_pages.queue as the detail-page fetcher sees it
    xml_vehicle,     \* xml_vehicle.queue: the document-ready messages
    saved,           \* XML files written by scrape_xml
    fetches,         \* deliveries made to the detail-page fetcher
    f_last,          \* the fetcher's last delivery: body, fetch results, outcome
    schema,          \* two reconcilers: the key constraint liste_eratv carries
    snapshots,       \* two reconcilers: the snapshot row each instance holds
    shared,          \* two reconcilers: the committed rows of liste_eratv
    w_pc,            \* two reconcilers: the statement each instance is at
    w_found,         \* two reconcilers: what each instance's SELECT returned
    w_pending,       \* two reconcilers: each instance's uncommitted write
    parsed_queue,    \* parsed.queue as the ingest worker sees it
    items,           \* the rows of the items table
    i_state,         \* ingest: "consuming" or "terminated"
    i_last,          \* ingest: the last delivery and how it ended
    helper,          \* the retry helper that is running
    h_attempt,       \* attempts the helper has made
    h_trace,         \* outcome of each attempt
    h_result,        \* "running", "returned", "raised" or "propagated"
    csv_path,        \* the path the list fetcher's message is about
    opened,          \* the files process_csv opens for the two payloads
    l_pc,            \* list fetcher: the statement of main it is at
    l_conn,          \* list fetcher: its broker connection
    l_site,          \* list fetcher: the export the registry serves
    l_csv,           \* list fetcher: the rows of the CSV written, if any
    l_sent,          \* list fetcher: messages published on csv_list.queue
    l_attempt,       \* list fetcher: attempts of send_csv_ready_message
    l_fault,         \* list fetcher: the step that raised, "none" if none did
    d_body,          \* one delivery to the detail fetcher: the message body
    d_pc,            \* the statement of the callback it is at
    d_gets,          \* requests.get calls made by the running safe_get
    d_exc,           \* the exception of the last requests.get, "none" if none
    d_saved,         \* files written by scrape_xml in this delivery
    d_published,     \* bodies published on xml_vehicle.queue in this delivery
    d_disp,          \* "none", "ack" or "nack_requeue"
    d_fault          \* the step that raised, "none" if none did

rvars == <<file, table, queue_in, deliveries, pc, refused, attempt, idx,
           inserted_count, updated_count, published, log, disp, fault, table0,
           synced, owed>>
fvars == <<vehicle_pages, xml_vehicle, saved, fetches, f_last>>
cvars == <<schema, snapshots, shared, w_pc, w_found, w_pending>>
ivars == <<parsed_queue, items, i_state, i_last>>
hvars == <<helper, h_attempt, h_trace, h_result>>
pvars == <<csv_path, opened>>
lvars == <<l_pc, l_conn, l_site, l_csv, l_sent, l_attempt, l_fault>>
dvars == <<d_body, d_pc, d_gets, d_exc, d_saved, d_published, d_disp, d_fault>>
xvars == <<cvars, ivars, hvars, pvars, lvars, dvars>>
vars == <<rvars, fvars, xvars>>

NoDelivery == [body |-> <<>>, page |-> "none", xml |-> "none", outcome |-> "none"]

\* the reconciler before its first delivery
ReconcilerStart ==
    /\ deliveries = 0
    /\ pc = "idle"
    /\ refused = 0
    /\ attempt = 0
    /\ idx = 0
    /\ inserted_count = 0
    /\ updated_count = 0
    /\ published = <<>>
    /\ log = <<>>
    /\ disp = "none"
    /\ fault = "none"
    /\ table0 = table
    /\ synced = FALSE
    /\ owed = {}

\* the detail-page fetcher before its first delivery
FetcherStart ==
    /\ xml_vehicle = <<>>
    /\ saved = {}
    /\ fetches = 0
    /\ f_last = NoDelivery

\* the components a specification leaves out stay as they are here
PairAbsent ==
    /\ schema = "none"
    /\ snapshots = <<>>
    /\ shared = <<>>
    /\ w_pc = <<>>
    /\ w_found = <<>>
    /\ w_pending = <<>>

IngestAbsent ==
    /\ parsed_queue = <<>>
    /\ items = <<>>
    /\ i_state = "consuming"
    /\ i_last = [body |-> <<>>, outcome |-> "none", raised |-> FALSE]

HelperAbsent ==
    /\ helper = "none"
    /\ h_attempt = 0
    /\ h_trace = <<>>
    /\ h_result = "none"

PathAbsent ==
    /\ csv_path = <<>>
    /\ opened = <<>>

NoExport == [wellformed |-> FALSE, results |-> <<>>]

ListAbsent ==
    /\ l_pc = "none"
    /\ l_conn = "none"
    /\ l_site = NoExport
    /\ l_csv = [written |-> FALSE, rows |-> <<>>]
    /\ l_sent = <<>>
    /\ l_attempt = 0
    /\ l_fault = "none"

DetailAbsent ==
    /\ d_body = <<>>
    /\ d_pc = "none"
    /\ d_gets = 0
    /\ d_exc = "none"
    /\ d_saved = {}
    /\ d_published = <<>>
    /\ d_disp = "none"
    /\ d_fault = "none"

Init ==
    /\ \E f \in 1..Len(Tracked) :
          \/ file \in GoodFiles(f) /\ table \in InitTables(f)
          \/ file \in BadFiles /\ table \in InitTables(f)
    /\ queue_in = <<CsvReadyMessage>>
    /\ ReconcilerStart
    /\ vehicle_pages = <<>>
    /\ FetcherStart
    /\ PairAbsent
    /\ IngestAbsent
    /\ HelperAbsent
    /\ PathAbsent
    /\ ListAbsent
    /\ DetailAbsent

\* ------------------------------------------------------------------------
\* callback of parser_liste_csv
\* ------------------------------------------------------------------------
\* except Exception: basic_nack(requeue=True); the callback returns
Nack(why) ==
    /\ pc' = "idle"
    /\ disp' = "nack"
    /\ fault' = why
    /\ queue_in' = <<CsvReadyMessage>> \o queue_in

\* the broker delivers the message; callback line 163: connect_postgres()
CallbackConnect(nfail) ==
    /\ pc = "idle"
    /\ queue_in # <<>>
    /\ deliveries < MaxDeliveries
    /\ deliveries' = deliveries + 1
    /\ refused' = nfail
    /\ LET conn == connect_postgres(nfail)
       IN  /\ attempt' = conn.attempt
           /\ IF conn.ok
              THEN /\ pc' = "read_csv"
                   /\ disp' = "none"
                   /\ fault' = "none"
                   /\ queue_in' = Tail(queue_in)
              ELSE /\ pc' = "idle"
                   /\ disp' = "nack"
                   /\ fault' = "connect"
                   /\ queue_in' = queue_in
    /\ idx' = 0
    /\ inserted_count' = 0
    /\ updated_count' = 0
    /\ published' = <<>>
    /\ log' = <<>>
    /\ table0' = table
    /\ synced' = (disp = "ack")
    /\ UNCHANGED <<file, table, owed, fvars, xvars>>

\* pd.read_csv(file_path) returns a frame, or raises on a file it cannot read or parse
read_csv_Lenient(f) == TRUE
read_csv(f) == f.readable

\* row["..."] raises KeyError when the header lacks one of the six columns
MissingColumn(f) == ColumnSet \ f.columns # {}

\* process_csv lines 91-98: pd.read_csv and the cursor
ReadCsv ==
    /\ pc = "read_csv"
    /\ refused' = 0
    /\ attempt' = 0
    /\ IF read_csv(file)
       THEN /\ pc' = "rows"
            /\ UNCHANGED <<disp, fault, queue_in>>
       ELSE Nack("read")
    /\ UNCHANGED <<file, table, deliveries, idx, inserted_count, updated_count,
                   published, log, table0, synced, owed, fvars, xvars>>

\* a row whose access to a column raises KeyError (lines 101-106)
RowKeyError ==
    /\ pc = "rows"
    /\ idx < Len(file.rows)
    /\ MissingColumn(file)
    /\ Nack("key")
    /\ UNCHANGED <<file, table, deliveries, refused, attempt, idx, inserted_count,
                   updated_count, published, log, table0, synced, owed, fvars, xvars>>

\* the table a run is left with when a statement or the commit of a row raises:
\* the earlier rows were committed one by one, the failing row writes nothing
AfterStoreError_Rollback(t, t0) == t0
AfterStoreError(t, t0) == t

\* a row whose SELECT, INSERT, UPDATE or commit raises
RowStoreError ==
    /\ pc = "rows"
    /\ idx < Len(file.rows)
    /\ ~MissingColumn(file)
    /\ table' = AfterStoreError(table, table0)
    /\ Nack("store")
    /\ UNCHANGED <<file, deliveries, refused, attempt, idx, inserted_count,
                   updated_count, published, log, table0, synced, owed, fvars, xvars>>

LogEntry(before, vals, found, class) ==
    [before |-> before, key |-> vals.type_id, class |-> class, found |-> found,
     vals |-> vals]

\* what cursor.fetchone() may return for the key
Fetched(t, key) ==
    IF SelectByTypeId(t, key) = {} THEN {<<>>}
    ELSE {<<t[i]>> : i \in SelectByTypeId(t, key)}

\* one iteration of the loop of process_csv (lines 100-150) that raises nothing
ProcessRow ==
    /\ pc = "rows"
    /\ idx < Len(file.rows)
    /\ ~MissingColumn(file)
    /\ LET vals == RowVals(file.rows[idx + 1])
       IN  \E found \in Fetched(table, vals.type_id) :
              LET class == Classify(found, vals)
              IN  /\ table' = Committed(table, class, vals)
                  /\ inserted_count' = inserted_count + (IF class = "INSERT" THEN 1 ELSE 0)
                  /\ updated_count' = updated_count + (IF class = "UPDATE" THEN 1 ELSE 0)
                  /\ published' = IF Publishes(class)
                                  THEN Append(published, NotificationBody(vals))
                                  ELSE published
                  /\ owed' = IF Publishes(class) THEN owed \ {vals.type_id} ELSE owed
                  /\ log' = Append(log, LogEntry(table, vals, found, class))
    /\ idx' = idx + 1
    /\ UNCHANGED <<file, queue_in, deliveries, pc, refused, attempt, disp, fault,
                   table0, synced, fvars, xvars>>

\* an iteration whose write is committed and whose basic_publish raises
RowPublishError ==
    /\ pc = "rows"
    /\ idx < Len(file.rows)
    /\ ~MissingColumn(file)
    /\ LET vals == RowVals(file.rows[idx + 1])
       IN  \E found \in Fetched(table, vals.type_id) :
              LET class == Classify(found, vals)
              IN  /\ Publishes(class)
                  /\ table' = Committed(table, class, vals)
                  /\ inserted_count' = inserted_count + (IF class = "INSERT" THEN 1 ELSE 0)
                  /\ updated_count' = updated_count + (IF class = "UPDATE" THEN 1 ELSE 0)
                  /\ owed' = owed \cup {vals.type_id}
                  /\ log' = Append(log, LogEntry(table, vals, found, class))
    /\ Nack("publish")
    /\ UNCHANGED <<file, deliveries, refused, attempt, idx, published, table0,
                   synced, fvars, xvars>>

\* lines 152-153 and 165-166: cursor.close, db_conn.close, basic_ack
Finish ==
    /\ pc = "rows"
    /\ idx = Len(file.rows)
    /\ pc' = "idle"
    /\ disp' = "ack"
    /\ UNCHANGED <<file, table, queue_in, deliveries, refused, attempt, idx,
                   inserted_count, updated_count, published, log, fault, table0,
                   synced, owed, fvars, xvars>>

\* the list fetcher announces the same snapshot file once more
Announce ==
    /\ pc = "idle"
    /\ disp = "ack"
    /\ queue_in = <<>>
    /\ deliveries < MaxDeliveries
    /\ queue_in' = <<CsvReadyMessage>>
    /\ UNCHANGED <<file, table, deliveries, pc, refused, attempt, idx,
                   inserted_count, updated_count, published, log, disp, fault,
                   table0, synced, owed, fvars, xvars>>

Next ==
    \/ \E nfail \in FailCounts : CallbackConnect(nfail)
    \/ ReadCsv
    \/ RowKeyError
    \/ RowStoreError
    \/ ProcessRow
    \/ RowPublishError
    \/ Finish
    \/ Announce

Spec == Init /\ [][Next]_vars


\* ------------------------------------------------------------------------
\* scraper_type_vehicule_html: the detail-page fetcher
\* ------------------------------------------------------------------------
MaxFetches == 2

\* message.split("|", 1)
split1(message) ==
    LET bars == {i \in 1..Len(message) : message[i] = "|"}
    IN  IF bars = {} THEN <<message>>
        ELSE LET b == CHOOSE i \in bars : \A j \in bars : i <= j
             IN  <<SubSeq(message, 1, b - 1), SubSeq(message, b + 1, Len(message))>>

\* requests.get raises on a URL it cannot parse (here: the empty text)
ValidUrl(url) == url # <<>>

\* what the site answers to safe_get(era_url) and to safe_get(xml_url)
PageAnswers == {"link", "no_link", "unreachable"}
XmlAnswers == {"ok", "unreachable"}

\* scrape_xml returns the path of the saved file or raises
scrape_xml_ok(era_url, page, xml) == ValidUrl(era_url) /\ page = "link" /\ xml = "ok"

\* f"{type_id}_{last_update}.xml".replace("/", "-")
XmlPath(type_id) ==
    [i \in 1..Len(type_id) |-> IF type_id[i] = "/" THEN "-" ELSE type_id[i]]
        \o <<"_", "today", ".xml">>

\* the notification in the framing the fetcher expects: "Type_ID|ERA_URL"
FramedBody(vals) == vals.type_id \o <<"|">> \o vals.url_tv

\* the bodies vehicle_pages.queue can hold: the bare URLs process_csv publishes
\* and the framed form of the same records
Bodies ==
    {NotificationBody(RowVals(r)) : r \in CsvRows(Len(Tracked))}
    \cup {FramedBody(RowVals(r)) : r \in CsvRows(Len(Tracked))}

\* callback of scraper_type_vehicule_html (lines 105-129), one delivery
FetcherCallback(page, xml) ==
    /\ vehicle_pages # <<>>
    /\ fetches < MaxFetches
    /\ fetches' = fetches + 1
    /\ LET body == Head(vehicle_pages)
           parts == split1(Strip(body))
       IN  IF Len(parts) = 2 /\ scrape_xml_ok(parts[2], page, xml)
           THEN /\ saved' = saved \cup {XmlPath(parts[1])}
                /\ xml_vehicle' = Append(xml_vehicle, XmlPath(parts[1]))
                /\ vehicle_pages' = Tail(vehicle_pages)
                /\ f_last' = [body |-> body, page |-> page, xml |-> xml,
                              outcome |-> "ack"]
           ELSE /\ UNCHANGED <<saved, xml_vehicle, vehicle_pages>>
                /\ f_last' = [body |-> body, page |-> page, xml |-> xml,
                              outcome |-> "nack"]
    /\ UNCHANGED <<rvars, xvars>>

InitFetch ==
    /\ file = [readable |-> TRUE, columns |-> ColumnSet, rows |-> <<>>]
    /\ table = <<>>
    /\ queue_in = <<>>
    /\ ReconcilerStart
    /\ vehicle_pages \in SeqsUpTo(Bodies, MaxRows)
    /\ FetcherStart
    /\ PairAbsent
    /\ IngestAbsent
    /\ HelperAbsent
    /\ PathAbsent
    /\ ListAbsent
    /\ DetailAbsent

NextFetch == \E page \in PageAnswers, xml \in XmlAnswers : FetcherCallback(page, xml)

SpecFetch == InitFetch /\ [][NextFetch]_vars

\* ------------------------------------------------------------------------
\* two instances of parser_liste_csv consuming csv_list.queue, one table.
\* Each instance runs the loop of process_csv on its own snapshot; the store
\* interleaves their statements (psycopg2 default: READ COMMITTED, a
\* transaction from the first statement to db_conn.commit()).
\* ------------------------------------------------------------------------
Workers == {1, 2}
Other(w) == CHOOSE v \in Workers : v # w

\* no statement of the source creates liste_eratv, so both tables the INSERT
\* of line 138 can meet are explored: type_id a primary key, or no key at all
Schemas == {"primary_key", "no_key"}

NoWrite == [op |-> "none", upto |-> 0]

\* snapshot rows that carry the same TypeID
SameKeyRows(f) == {CsvRow(Text(<<" ", "T">>), f, v) : v \in CsvCells}

InitPair ==
    /\ file = [readable |-> TRUE, columns |-> ColumnSet, rows |-> <<>>]
    /\ table = <<>>
    /\ queue_in = <<>>
    /\ ReconcilerStart
    /\ vehicle_pages = <<>>
    /\ FetcherStart
    /\ schema \in Schemas
    /\ \E f \in 1..Len(Tracked) : snapshots \in [Workers -> SameKeyRows(f)]
    /\ shared = <<>>
    /\ w_pc = [w \in Workers |-> "select"]
    /\ w_found = [w \in Workers |-> <<>>]
    /\ w_pending = [w \in Workers |-> NoWrite]
    /\ IngestAbsent
    /\ HelperAbsent
    /\ PathAbsent
    /\ ListAbsent
    /\ DetailAbsent

\* lines 108-118: SELECT, fetchone and the comparison; an unchanged row ends
\* the run of a one-row snapshot (close, basic_ack)
PairSelect(w) ==
    /\ w_pc[w] = "select"
    /\ LET vals == RowVals(snapshots[w])
       IN  \E found \in Fetched(shared, vals.type_id) :
              /\ w_found' = [w_found EXCEPT ![w] = found]
              /\ w_pc' = [w_pc EXCEPT ![w] =
                            IF Classify(found, vals) = "UNCHANGED" THEN "done"
                            ELSE "write"]
    /\ UNCHANGED <<schema, snapshots, shared, w_pending, rvars, fvars, ivars,
                   hvars, pvars, lvars, dvars>>

\* the INSERT waits while the other transaction holds an uncommitted row with
\* the key, the UPDATE while the other holds the row's lock
WriteWaits(w, class) ==
    IF class = "INSERT"
    THEN schema = "primary_key" /\ w_pending[Other(w)].op = "INSERT"
    ELSE w_pending[Other(w)].op = "UPDATE"

\* the INSERT raises UniqueViolation when a committed row holds the key
WriteRaises(w, class, key) ==
    /\ class = "INSERT"
    /\ schema = "primary_key"
    /\ SelectByTypeId(shared, key) # {}

\* lines 120-128 or 138-142: cursor.execute of the UPDATE or the INSERT; an
\* exception reaches the callback's except: basic_nack(requeue=True)
PairWrite(w) ==
    /\ w_pc[w] = "write"
    /\ LET vals == RowVals(snapshots[w])
           class == Classify(w_found[w], vals)
       IN  /\ ~WriteWaits(w, class)
           /\ IF WriteRaises(w, class, vals.type_id)
              THEN /\ w_pc' = [w_pc EXCEPT ![w] = "aborted"]
                   /\ UNCHANGED w_pending
              ELSE /\ w_pc' = [w_pc EXCEPT ![w] = "commit"]
                   /\ w_pending' = [w_pending EXCEPT ![w] =
                                      [op |-> class, upto |-> Len(shared)]]
    /\ UNCHANGED <<schema, snapshots, shared, w_found, rvars, fvars, ivars,
                   hvars, pvars, lvars, dvars>>

\* the committed table once the pending write of a transaction is applied: an
\* UPDATE reaches the rows that were committed when it was executed
ApplyWrite(t, w_write, vals) ==
    IF w_write.op = "INSERT" THEN SqlInsert(t, vals)
    ELSE SqlUpdate(SubSeq(t, 1, w_write.upto), vals)
             \o SubSeq(t, w_write.upto + 1, Len(t))

\* lines 129-136 or 143-150: db_conn.commit(), then basic_publish; the run of
\* a one-row snapshot ends (close, basic_ack)
PairCommit(w) ==
    /\ w_pc[w] = "commit"
    /\ shared' = ApplyWrite(shared, w_pending[w], RowVals(snapshots[w]))
    /\ w_pending' = [w_pending EXCEPT ![w] = NoWrite]
    /\ w_pc' = [w_pc EXCEPT ![w] = "done"]
    /\ UNCHANGED <<schema, snapshots, w_found, rvars, fvars, ivars, hvars, pvars, lvars, dvars>>

NextPair ==
    \E w \in Workers :
        \/ PairSelect(w)
        \/ PairWrite(w)
        \/ PairCommit(w)

SpecPair == InitPair /\ [][NextPair]_vars

\* ------------------------------------------------------------------------
\* ingest: the consumer of parsed.queue
\* ------------------------------------------------------------------------
MaxMsgs == 3

\* message bodies as JSON tokens: two records, an object without fields, an
\* array, and a text that is not JSON
IngestBodies ==
    {<<"{", "xml_file_path", ":", "a.xml", "}">>,
     <<"{", "xml_file_path", ":", "b.xml", "}">>,
     <<"{", "}">>,
     <<"[", "]">>,
     <<"{">>}

\* json.loads(body): an object, an array, or JSONDecodeError
json_loads(body) ==
    IF Len(body) = 2 /\ body[1] = "[" /\ body[2] = "]"
    THEN [kind |-> "array", key |-> "", value |-> ""]
    ELSE IF Len(body) = 2 /\ body[1] = "{" /\ body[2] = "}"
    THEN [kind |-> "object", key |-> "", value |-> ""]
    ELSE IF Len(body) = 5 /\ body[1] = "{" /\ body[3] = ":" /\ body[5] = "}"
    THEN [kind |-> "object", key |-> body[2], value |-> body[4]]
    ELSE [kind |-> "error", key |-> "", value |-> ""]

\* data.get(name): the value of the field, None when the object lacks it
DictGet(data, name) == IF data.key = name THEN data.value ELSE "None"

\* the row of INSERT INTO items (title, summary, date, xml_file_path, status)
ItemRow(data) ==
    [title |-> DictGet(data, "title"),
     summary |-> DictGet(data, "summary"),
     date |-> DictGet(data, "date"),
     xml_file_path |-> DictGet(data, "xml_file_path"),
     status |-> "parsed"]

\* insert_into_db returns: the store accepts the connection and data is a dict
insert_into_db_ok(data, up) == up /\ data.kind = "object"

\* callback of ingest for one delivery. basic_consume(auto_ack=True): the
\* broker settles the message when it delivers it. The callback has no
\* try/except: an exception of json.loads or insert_into_db leaves
\* start_consuming and main, and the process ends.
IngestCallback(up) ==
    /\ i_state = "consuming"
    /\ parsed_queue # <<>>
    /\ parsed_queue' = Tail(parsed_queue)
    /\ LET body == Head(parsed_queue)
           data == json_loads(body)
       IN  IF data.kind # "error" /\ insert_into_db_ok(data, up)
           THEN /\ items' = Append(items, ItemRow(data))
                /\ i_state' = "consuming"
                /\ i_last' = [body |-> body, outcome |-> "ack", raised |-> FALSE]
           ELSE /\ items' = items
                /\ i_state' = "terminated"
                /\ i_last' = [body |-> body, outcome |-> "ack", raised |-> TRUE]
    /\ UNCHANGED <<rvars, fvars, cvars, hvars, pvars, lvars, dvars>>

InitIngest ==
    /\ file = [readable |-> TRUE, columns |-> ColumnSet, rows |-> <<>>]
    /\ table = <<>>
    /\ queue_in = <<>>
    /\ ReconcilerStart
    /\ vehicle_pages = <<>>
    /\ FetcherStart
    /\ PairAbsent
    /\ parsed_queue \in SeqsUpTo(IngestBodies, MaxMsgs)
    /\ items = <<>>
    /\ i_state = "consuming"
    /\ i_last = [body |-> <<>>, outcome |-> "none", raised |-> FALSE]
    /\ HelperAbsent
    /\ PathAbsent
    /\ ListAbsent
    /\ DetailAbsent

NextIngest == \E up \in BOOLEAN : IngestCallback(up)

SpecIngest == InitIngest /\ [][NextIngest]_vars

\* ------------------------------------------------------------------------
\* the retry helpers: one loop of attempts each
\* ------------------------------------------------------------------------
\* safe_get(url, max_retries=3, timeout=30)
safe_get_max_retries == 3
\* send_csv_ready_message: for attempt in range(5)
send_attempts == 5

Helpers ==
    {"parser.connect_rabbitmq", "parser.connect_postgres",
     "fetcher.connect_rabbitmq", "fetcher.safe_get",
     "list.connect_rabbitmq", "list.send_csv_ready_message"}

\* the number of iterations of the helper's for loop
Budget(h) ==
    CASE h = "fetcher.safe_get" -> safe_get_max_retries
      [] h = "list.send_csv_ready_message" -> send_attempts
      [] h \in Helpers \ {"fetcher.safe_get", "list.send_csv_ready_message"}
           -> max_retries
      [] OTHER -> 0

\* what the body of the try block can end with: "none" is a normal end
Raisable(h) ==
    CASE h \in {"parser.connect_rabbitmq", "fetcher.connect_rabbitmq",
                "list.connect_rabbitmq"}
           -> {"none", "AMQPConnectionError", "gaierror", "ChannelClosedByBroker"}
      [] h = "parser.connect_postgres" -> {"none", "OperationalError"}
      [] h = "fetcher.safe_get"
           -> {"none", "ReadTimeout", "ConnectionError", "HTTPError"}
      [] h = "list.send_csv_ready_message"
           -> {"none", "AMQPConnectionError", "ChannelWrongStateError"}
      [] OTHER -> {}

\* the exceptions the helper's except clause names
Caught(h) ==
    CASE h \in {"parser.connect_rabbitmq", "fetcher.connect_rabbitmq"}
           -> {"AMQPConnectionError", "gaierror"}
      [] h = "list.connect_rabbitmq"
           -> {"AMQPConnectionError", "gaierror", "ChannelClosedByBroker"}
      [] h = "parser.connect_postgres" -> {"OperationalError"}
      [] h = "fetcher.safe_get" -> {"ReadTimeout", "ConnectionError"}
      [] h = "list.send_csv_ready_message" -> {"AMQPConnectionError"}
      [] OTHER -> {}

AttemptClass(h, exc) ==
    IF exc = "none" THEN "ok"
    ELSE IF exc \in Caught(h) THEN "retried"
    ELSE "other"

\* where the helper is after its n-th attempt: return (or break) on success,
\* the exception itself when no except clause names it, the next iteration
\* after a sleep, or the raise that follows the loop
AfterAttempt_Silent(h, n, class) ==
    IF class = "ok" THEN "returned"
    ELSE IF class = "other" THEN "propagated"
    ELSE IF n < Budget(h) THEN "running"
    ELSE "returned"
AfterAttempt(h, n, class) ==
    IF class = "ok" THEN "returned"
    ELSE IF class = "other" THEN "propagated"
    ELSE IF n < Budget(h) THEN "running"
    ELSE "raised"

\* one iteration of the helper's loop
RetryAttempt(exc) ==
    /\ h_result = "running"
    /\ h_attempt < Budget(helper)
    /\ exc \in Raisable(helper)
    /\ h_attempt' = h_attempt + 1
    /\ h_trace' = Append(h_trace, AttemptClass(helper, exc))
    /\ h_result' = AfterAttempt(helper, h_attempt + 1, AttemptClass(helper, exc))
    /\ UNCHANGED <<helper, rvars, fvars, cvars, ivars, pvars, lvars, dvars>>

Exceptions == UNION {Raisable(h) : h \in Helpers}

InitRetry ==
    /\ file = [readable |-> TRUE, columns |-> ColumnSet, rows |-> <<>>]
    /\ table = <<>>
    /\ queue_in = <<>>
    /\ ReconcilerStart
    /\ vehicle_pages = <<>>
    /\ FetcherStart
    /\ PairAbsent
    /\ IngestAbsent
    /\ helper \in Helpers
    /\ h_attempt = 0
    /\ h_trace = <<>>
    /\ h_result = "running"
    /\ PathAbsent
    /\ ListAbsent
    /\ DetailAbsent

NextRetry == \E exc \in Exceptions : RetryAttempt(exc)

SpecRetry == InitRetry /\ [][NextRetry]_vars

\* ------------------------------------------------------------------------
\* the snapshot file a list-ready payload names
\* ------------------------------------------------------------------------
MaxPathLen == 4

PathChars == {"/", "a", "."}

\* DATA_DIR of parser_liste_csv
DATA_DIR ==
    <<"/", "a", "p", "p", "/", "d", "a", "t", "a", "/",
      "c", "s", "v", "_", "l", "i", "s", "t", "e", "s">>

\* send_csv_ready_message: message = f"CSV ready: {csv_file}"
Marker == <<"C", "S", "V", " ", "r", "e", "a", "d", "y", ":", " ">>
ReadyMessage(csv_file) == Marker \o csv_file

\* os.path.basename(p): what follows the last "/"
basename(p) ==
    LET slashes == {i \in 1..Len(p) : p[i] = "/"}
        last == IF slashes = {} THEN 0
                ELSE CHOOSE i \in slashes : \A j \in slashes : j <= i
    IN  SubSeq(p, last + 1, Len(p))

\* os.path.join(a, b)
path_join(a, b) ==
    IF b # <<>> /\ b[1] = "/" THEN b
    ELSE IF a = <<>> \/ a[Len(a)] = "/" THEN a \o b
    ELSE a \o <<"/">> \o b

\* process_csv line 91: the file pd.read_csv is given for a payload
file_path(csv_file) == path_join(DATA_DIR, basename(csv_file))

\* the callback receives the payload without the marker and with it
ResolvePaths ==
    /\ opened = <<>>
    /\ opened' = <<file_path(csv_path), file_path(ReadyMessage(csv_path))>>
    /\ UNCHANGED <<csv_path, rvars, fvars, cvars, ivars, hvars, lvars, dvars>>

InitPath ==
    /\ file = [readable |-> TRUE, columns |-> ColumnSet, rows |-> <<>>]
    /\ table = <<>>
    /\ queue_in = <<>>
    /\ ReconcilerStart
    /\ vehicle_pages = <<>>
    /\ FetcherStart
    /\ PairAbsent
    /\ IngestAbsent
    /\ HelperAbsent
    /\ csv_path \in SeqsUpTo(PathChars, MaxPathLen) \ {<<>>}
    /\ opened = <<>>
    /\ ListAbsent
    /\ DetailAbsent

NextPath == ResolvePaths

SpecPath == InitPath /\ [][NextPath]_vars

\* ------------------------------------------------------------------------
\* scraper_liste_html: main of the list fetcher
\* ------------------------------------------------------------------------
MaxResults == 2

\* the Type_ID attribute of a Result element: absent or empty, or a text
TypeIdAttrs == {<<>>, <<" ", "T">>, <<"U">>}

\* what the registry serves: a document ET.parse rejects, or Result elements
Exports ==
    {NoExport}
    \cup {[wellformed |-> TRUE, results |-> r] :
            r \in SeqsUpTo(TypeIdAttrs, MaxResults)}

\* item.attrib.get(name, "").strip() or None
StripOrNone(attr) == IF Strip(attr) = <<>> THEN Null ELSE Text(Strip(attr))

\* df["Type_ID"].astype(str): None becomes the text "None"
AsTypeStr(cell) == IF cell.k = "null" THEN <<"N", "o", "n", "e">> ELSE cell.s

\* the lambda of line 157: f"{BASE_URL}/Eratv/Home/View/{x}" for a text that
\* is not empty
EraUrl(cell) ==
    LET x == AsTypeStr(cell)
    IN  IF x # <<>> THEN Text(<<"https://eratv.era.europa.eu/Eratv/Home/View/">> \o x)
        ELSE Null

\* the CSV row of a Result element (the columns filled from Type_ID)
CsvRowOf(attr) ==
    [Type_ID |-> StripOrNone(attr), ERA_URL |-> EraUrl(StripOrNone(attr))]

\* parse_xml_to_csv raises: ET.parse on a malformed document, df["Type_ID"]
\* on a frame without rows (KeyError), to_csv when the file cannot be written
parse_raises(site, disk_ok) ==
    ~site.wellformed \/ site.results = <<>> \/ ~disk_ok

\* csv_path = os.path.join(DATA_DIR, f"liste_vehicules_{today}.csv")
CsvPathToday == path_join(DATA_DIR, <<"liste_vehicules_", "today", ".csv">>)

\* finally: connection.close()
AfterFinally_Leak(conn) == conn
AfterFinally(conn) == "closed"

\* line 197: connect_rabbitmq(), before the try block
ListConnect(ok) ==
    /\ l_pc = "connect"
    /\ IF ok
       THEN /\ l_conn' = "open"
            /\ l_pc' = "download"
            /\ l_fault' = "none"
       ELSE /\ l_conn' = l_conn
            /\ l_pc' = "exit"
            /\ l_fault' = "connect"
    /\ UNCHANGED <<l_site, l_csv, l_sent, l_attempt, rvars, fvars, cvars, ivars,
                   hvars, pvars, dvars>>

\* line 200: download_xml_playwright(); an exception runs the finally block
ListDownload(ok) ==
    /\ l_pc = "download"
    /\ IF ok
       THEN /\ l_pc' = "parse"
            /\ UNCHANGED <<l_conn, l_fault>>
       ELSE /\ l_pc' = "exit"
            /\ l_fault' = "download"
            /\ l_conn' = AfterFinally(l_conn)
    /\ UNCHANGED <<l_site, l_csv, l_sent, l_attempt, rvars, fvars, cvars, ivars,
                   hvars, pvars, dvars>>

\* line 203: parse_xml_to_csv(xml_path)
ListParse(disk_ok) ==
    /\ l_pc = "parse"
    /\ IF parse_raises(l_site, disk_ok)
       THEN /\ l_pc' = "exit"
            /\ l_fault' = "parse"
            /\ l_conn' = AfterFinally(l_conn)
            /\ l_csv' = l_csv
       ELSE /\ l_pc' = "send"
            /\ l_csv' = [written |-> TRUE,
                         rows |-> [i \in 1..Len(l_site.results) |->
                                      CsvRowOf(l_site.results[i])]]
            /\ UNCHANGED <<l_conn, l_fault>>
    /\ UNCHANGED <<l_site, l_sent, l_attempt, rvars, fvars, cvars, ivars, hvars,
                   pvars, dvars>>

\* line 206: one attempt of send_csv_ready_message; when the helper returns or
\* raises, the finally block runs and main ends
ListSendAttempt(exc) ==
    /\ l_pc = "send"
    /\ exc \in Raisable("list.send_csv_ready_message")
    /\ l_attempt' = l_attempt + 1
    /\ LET after == AfterAttempt("list.send_csv_ready_message", l_attempt + 1,
                        AttemptClass("list.send_csv_ready_message", exc))
       IN  IF after = "running"
           THEN UNCHANGED <<l_pc, l_conn, l_sent, l_fault>>
           ELSE /\ l_pc' = "exit"
                /\ l_conn' = AfterFinally(l_conn)
                /\ l_sent' = IF after = "returned"
                             THEN Append(l_sent, ReadyMessage(CsvPathToday))
                             ELSE l_sent
                /\ l_fault' = IF after = "returned" THEN "none" ELSE "send"
    /\ UNCHANGED <<l_site, l_csv, rvars, fvars, cvars, ivars, hvars, pvars,
                   dvars>>

InitList ==
    /\ file = [readable |-> TRUE, columns |-> ColumnSet, rows |-> <<>>]
    /\ table = <<>>
    /\ queue_in = <<>>
    /\ ReconcilerStart
    /\ vehicle_pages = <<>>
    /\ FetcherStart
    /\ PairAbsent
    /\ IngestAbsent
    /\ HelperAbsent
    /\ csv_path = <<>>
    /\ opened = <<>>
    /\ l_pc = "connect"
    /\ l_conn = "none"
    /\ l_site \in Exports
    /\ l_csv = [written |-> FALSE, rows |-> <<>>]
    /\ l_sent = <<>>
    /\ l_attempt = 0
    /\ l_fault = "none"
    /\ DetailAbsent

NextList ==
    \/ \E ok \in BOOLEAN : ListConnect(ok)
    \/ \E ok \in BOOLEAN : ListDownload(ok)
    \/ \E disk_ok \in BOOLEAN : ListParse(disk_ok)
    \/ \E exc \in Exceptions : ListSendAttempt(exc)

SpecList == InitList /\ [][NextList]_vars

\* ------------------------------------------------------------------------
\* scraper_type_vehicule_html: one delivery, statement by statement
\* ------------------------------------------------------------------------
\* bodies delivered: "TypeID|URL" (one TypeID with a "/"), a bare URL, and a
\* framed body whose URL is empty
DetailBodies ==
    {<<"T", "|", "u">>, <<"U", "/", "1", "|", "u">>, <<"u">>, <<"T", "|">>}

\* the statements of the try block in program order
StepAfter_PublishFirst(step) ==
    CASE step = "split" -> "get_page"
      [] step = "get_page" -> "get_xml"
      [] step = "get_xml" -> "publish"
      [] step = "publish" -> "save"
      [] step = "save" -> "ack"
      [] OTHER -> "done"
StepAfter(step) ==
    CASE step = "split" -> "get_page"
      [] step = "get_page" -> "get_xml"
      [] step = "get_xml" -> "save"
      [] step = "save" -> "publish"
      [] step = "publish" -> "ack"
      [] OTHER -> "done"

\* except Exception: basic_nack(requeue=True)
DetailNack(why) ==
    /\ d_pc' = "done"
    /\ d_disp' = "nack_requeue"
    /\ d_fault' = why

\* the broker delivers a message to the callback: the one just requeued, or
\* after an acknowledgement the next one of the queue
DetailDeliver(body) ==
    /\ d_pc \in {"idle", "done"}
    /\ fetches < MaxFetches
    /\ d_disp = "nack_requeue" => body = d_body
    /\ fetches' = fetches + 1
    /\ d_body' = body
    /\ d_pc' = "split"
    /\ d_gets' = 0
    /\ d_exc' = "none"
    /\ d_published' = <<>>
    /\ d_disp' = "none"
    /\ d_fault' = "none"
    /\ UNCHANGED <<d_saved, rvars, vehicle_pages, xml_vehicle, saved, f_last,
                   cvars, ivars, hvars, pvars, lvars>>

\* lines 107-108: decode, strip, split("|", 1) and the unpacking
DetailSplit ==
    /\ d_pc = "split"
    /\ IF Len(split1(Strip(d_body))) = 2
       THEN /\ d_pc' = StepAfter("split")
            /\ UNCHANGED <<d_disp, d_fault>>
       ELSE DetailNack("split")
    /\ UNCHANGED <<d_body, d_gets, d_exc, d_saved, d_published, rvars, fvars,
                   cvars, ivars, hvars, pvars, lvars>>

\* what requests.get can end with for the URL
GetRaisable(url) ==
    IF ValidUrl(url) THEN Raisable("fetcher.safe_get") ELSE {"MissingSchema"}

\* one iteration of safe_get, called for the page (line 73) or for the XML
\* (line 92); link: the page holds a link with "exportTo=XML"
DetailGet(exc, link) ==
    /\ d_pc \in {"get_page", "get_xml"}
    /\ exc \in GetRaisable(IF d_pc = "get_page" THEN split1(Strip(d_body))[2]
                           ELSE <<"xml_url">>)
    /\ d_exc' = exc
    /\ LET after == AfterAttempt("fetcher.safe_get", d_gets + 1,
                        AttemptClass("fetcher.safe_get", exc))
       IN  IF after = "running"
           THEN /\ d_gets' = d_gets + 1
                /\ UNCHANGED <<d_pc, d_disp, d_fault>>
           ELSE IF after = "returned" /\ (link \/ d_pc = "get_xml")
           THEN /\ d_gets' = 0
                /\ d_pc' = StepAfter(d_pc)
                /\ UNCHANGED <<d_disp, d_fault>>
           ELSE /\ d_gets' = d_gets + 1
                /\ DetailNack(IF after = "returned" THEN "no_link"
                              ELSE IF after = "raised" THEN "fetch"
                              ELSE "http")
    /\ UNCHANGED <<d_body, d_saved, d_published, rvars, fvars, cvars, ivars,
                   hvars, pvars, lvars>>

\* lines 93-98: the file is written
DetailSave(ok) ==
    /\ d_pc = "save"
    /\ IF ok
       THEN /\ d_saved' = d_saved \cup {XmlPath(split1(Strip(d_body))[1])}
            /\ d_pc' = StepAfter("save")
            /\ UNCHANGED <<d_disp, d_fault>>
       ELSE /\ d_saved' = d_saved
            /\ DetailNack("save")
    /\ UNCHANGED <<d_body, d_gets, d_exc, d_published, rvars, fvars, cvars,
                   ivars, hvars, pvars, lvars>>

\* lines 112-117: basic_publish(body=xml_path)
DetailPublish(ok) ==
    /\ d_pc = "publish"
    /\ IF ok
       THEN /\ d_published' = Append(d_published, XmlPath(split1(Strip(d_body))[1]))
            /\ d_pc' = StepAfter("publish")
            /\ UNCHANGED <<d_disp, d_fault>>
       ELSE /\ d_published' = d_published
            /\ DetailNack("publish")
    /\ UNCHANGED <<d_body, d_gets, d_exc, d_saved, rvars, fvars, cvars, ivars,
                   hvars, pvars, lvars>>

\* lines 121-125: the pause, then basic_ack
DetailAck ==
    /\ d_pc = "ack"
    /\ d_pc' = "done"
    /\ d_disp' = "ack"
    /\ UNCHANGED <<d_body, d_gets, d_exc, d_saved, d_published, d_fault, rvars,
                   fvars, cvars, ivars, hvars, pvars, lvars>>

InitDetail ==
    /\ file = [readable |-> TRUE, columns |-> ColumnSet, rows |-> <<>>]
    /\ table = <<>>
    /\ queue_in = <<>>
    /\ ReconcilerStart
    /\ vehicle_pages = <<>>
    /\ FetcherStart
    /\ PairAbsent
    /\ IngestAbsent
    /\ HelperAbsent
    /\ csv_path = <<>>
    /\ opened = <<>>
    /\ l_pc = "none"
    /\ l_conn = "none"
    /\ l_site = NoExport
    /\ l_csv = [written |-> FALSE, rows |-> <<>>]
    /\ l_sent = <<>>
    /\ l_attempt = 0
    /\ l_fault = "none"
    /\ d_body = <<>>
    /\ d_pc = "idle"
    /\ d_gets = 0
    /\ d_exc = "none"
    /\ d_saved = {}
    /\ d_published = <<>>
    /\ d_disp = "none"
    /\ d_fault = "none"

NextDetail ==
    \/ \E body \in DetailBodies : DetailDeliver(body)
    \/ DetailSplit
    \/ \E exc \in Exceptions \cup {"MissingSchema"}, link \in BOOLEAN :
          DetailGet(exc, link)
    \/ \E ok \in BOOLEAN : DetailSave(ok)
    \/ \E ok \in BOOLEAN : DetailPublish(ok)
    \/ DetailAck

SpecDetail == InitDetail /\ [][NextDetail]_vars

\* ------------------------------------------------------------------------
\* Properties of the reconciler
\* ------------------------------------------------------------------------
\* the normal form of a cell, stated on positions: empty for a null cell,
\* otherwise the text from its first to its last non-blank character
NormalForm(val) ==
    IF val.k = "null" THEN <<>>
    ELSE LET s == PyStr(val)
             solid == {i \in 1..Len(s) : s[i] # " "}
         IN  IF solid = {} THEN <<>>
             ELSE SubSeq(s, CHOOSE i \in solid : \A j \in solid : i <= j,
                            CHOOSE i \in solid : \A j \in solid : i >= j)

\* the snapshot column a tracked table column is filled from
ColumnOf(c) == Columns[(CHOOSE i \in 1..Len(Tracked) : Tracked[i] = c) + 1]

IsChange(e) == e.class # "UNCHANGED"
IsInsert(e) == e.class = "INSERT"
IsUpdate(e) == e.class = "UPDATE"

RunCompleted == pc = "idle" /\ disp = "ack"
RunFailed == pc = "idle" /\ disp = "nack"

AllUnchanged ==
    /\ \A i \in 1..Len(log) : log[i].class = "UNCHANGED"
    /\ published = <<>>
    /\ inserted_count = 0
    /\ updated_count = 0

\* rows of the snapshot that share a TypeID agree on every tracked field
NoConflictingRows ==
    \A i, j \in 1..Len(file.rows) :
        NormalForm(file.rows[i]["Type_ID"]) = NormalForm(file.rows[j]["Type_ID"])
        => \A c \in ColumnSet :
               NormalForm(file.rows[i][c]) = NormalForm(file.rows[j][c])

\* C1 as stated: a run over a snapshot that the previous run has reconciled to
\* completion classifies every row UNCHANGED and publishes nothing, whatever
\* the snapshot.
C1_SecondRunUnchanged == synced => AllUnchanged

\* C1 amended: the same, for snapshots in which the rows that share a TypeID
\* carry the same normalized tracked fields.
C1_SecondRunUnchangedNoConflict == (synced /\ NoConflictingRows) => AllUnchanged

C1_Witness ==
    /\ synced
    /\ RunCompleted
    /\ NoConflictingRows
    /\ Len(log) = MaxRows
    /\ Len(table) = MaxRows
    /\ AllUnchanged

\* C2: in a run that completes, the bodies published are, in order, the URLs of
\* the rows classified INSERT or UPDATE, one each and none for an UNCHANGED
\* row, and their number is inserted_count + updated_count.
C2_OneNotificationPerChange ==
    RunCompleted =>
        LET changes == SelectSeq(log, IsChange)
        IN  /\ Len(log) = Len(file.rows)
            /\ Len(published) = Len(changes)
            /\ \A i \in 1..Len(changes) : published[i] = changes[i].vals.url_tv
            /\ inserted_count = Len(SelectSeq(log, IsInsert))
            /\ updated_count = Len(SelectSeq(log, IsUpdate))
            /\ Len(published) = inserted_count + updated_count

C2_Witness ==
    /\ RunCompleted
    /\ inserted_count = 1
    /\ updated_count = 1
    /\ Len(published) = 2

\* the table the i-th row met holds a row with the row's TypeID
Present(i) ==
    \E k \in 1..Len(log[i].before) :
        log[i].before[k].type_id = Text(NormalForm(file.rows[i]["Type_ID"]))

\* the row found for the i-th row and the row itself differ in a tracked field
Differs(i) ==
    \E c \in TrackedSet :
        NormalForm(log[i].found[1][c]) # NormalForm(file.rows[i][ColumnOf(c)])

\* C4: every row iterated over gets exactly one classification: INSERT iff its
\* TypeID is absent from the table, UPDATE iff it is present and a tracked
\* field differs after normalization, UNCHANGED iff it is present and none does.
C4_Partition ==
    /\ pc = "rows" => Len(log) = idx
    /\ \A i \in 1..Len(log) :
          /\ log[i].class \in {"INSERT", "UPDATE", "UNCHANGED"}
          /\ log[i].class = "INSERT" <=> ~Present(i)
          /\ Present(i) => log[i].found # <<>>
          /\ log[i].class = "UPDATE" <=> (Present(i) /\ Differs(i))
          /\ log[i].class = "UNCHANGED" <=> (Present(i) /\ ~Differs(i))

C4_Witness ==
    /\ Len(log) = 2
    /\ log[1].class = "UPDATE"
    /\ log[2].class = "INSERT"
    /\ \E c \in TrackedSet \ {"url_tv"} :
          log[1].found[1][c] = Text(log[1].vals[c])

\* C5: the values compared are the normal forms (null gives the empty text,
\* anything else its string form without surrounding blanks), and a persisted
\* row that equals the snapshot row up to surrounding blanks and null versus
\* empty is classified UNCHANGED, written nothing and notified nothing.
C5_NormalizedComparison ==
    \A i \in 1..Len(log) :
        /\ log[i].vals.type_id = NormalForm(file.rows[i]["Type_ID"])
        /\ \A c \in TrackedSet :
              log[i].vals[c] = NormalForm(file.rows[i][ColumnOf(c)])
        /\ (log[i].found # <<>> /\ ~Differs(i)) =>
              /\ log[i].class = "UNCHANGED"
              /\ i < Len(log) => log[i + 1].before = log[i].before
              /\ i = Len(log) => table = log[i].before

C5_Witness ==
    \E i \in 1..Len(log) :
        /\ log[i].class = "UNCHANGED"
        /\ \E c \in TrackedSet :
              /\ log[i].found[1][c] \in DbCells
              /\ file.rows[i][ColumnOf(c)] # log[i].found[1][c]

\* C6 as stated: a row with an empty TypeID is skipped: it is classified
\* neither INSERT nor UPDATE and the table holds no row with an empty TypeID.
C6_EmptyTypeIdSkipped ==
    /\ \A i \in 1..Len(log) : log[i].key = <<>> => ~IsChange(log[i])
    /\ \A k \in 1..Len(table) : table[k].type_id # Text(<<>>)

\* C7: when the store refuses every attempt of connect_postgres, the callback
\* ends in a negative acknowledgement with the table as it was and nothing
\* published.
C7_StoreUnreachable ==
    refused >= max_retries =>
        /\ RunFailed
        /\ fault = "connect"
        /\ attempt = max_retries
        /\ table = table0
        /\ published = <<>>
        /\ log = <<>>

C7_Witness ==
    /\ refused = max_retries
    /\ RunFailed
    /\ deliveries = MaxDeliveries
    /\ table # <<>>

BadFile == ~file.readable \/ MissingColumn(file)

\* C8 as stated: a snapshot that cannot be read or that lacks a column makes
\* the run abort, with the table unchanged and nothing published.
C8_BadSnapshotAborts ==
    BadFile => (table = table0 /\ published = <<>> /\ disp # "ack")

\* C8 amended: such a snapshot leaves the table unchanged and publishes
\* nothing, and the run aborts unless the file is readable and has no data row.
C8_BadSnapshotNoEffect ==
    BadFile =>
        /\ table = table0
        /\ published = <<>>
        /\ log = <<>>
        /\ pc = "idle" /\ deliveries > 0 /\ file.rows # <<>> => RunFailed
        /\ pc = "idle" /\ deliveries > 0 /\ ~file.readable => RunFailed
        /\ RunCompleted => (file.readable /\ file.rows = <<>>)

C8_Witness ==
    /\ MissingColumn(file)
    /\ file.rows # <<>>
    /\ RunFailed
    /\ fault = "key"
    /\ table # <<>>

\* the write logged at position i is the last one of the run to its key
LastWrite(i) ==
    /\ IsChange(log[i])
    /\ \A j \in (i + 1)..Len(log) : ~(IsChange(log[j]) /\ log[j].key = log[i].key)

\* the values written at position i are those of a row of the table
Visible(i) ==
    \E k \in 1..Len(table) :
        /\ table[k].type_id.s = log[i].key
        /\ \A c \in TrackedSet : table[k][c] = Text(log[i].vals[c])

\* C9 as stated: a run that fails at a row leaves the table as it was before
\* the run.
C9_FailedRunRestoresTable ==
    (RunFailed /\ fault \in {"store", "publish"}) => table = table0

\* C9 amended: a run commits row by row: when it fails at row k the writes of
\* the rows before k stay in the table, and a store error at row k writes
\* nothing for row k.
C9_EarlierWritesStay ==
    (RunFailed /\ fault \in {"store", "publish"}) =>
        /\ \A i \in 1..Len(log) : LastWrite(i) => Visible(i)
        /\ Len(table) = Len(table0) + inserted_count
        /\ fault = "store" =>
              /\ Len(log) = idx
              /\ inserted_count + updated_count = Len(SelectSeq(log, IsChange))

C9_Witness ==
    /\ RunFailed
    /\ fault = "store"
    /\ idx = 1
    /\ IsChange(log[1])
    /\ table # table0

\* C10 as stated: when a run completes, no change committed by this or an
\* earlier, failed run of the message is left without a notification.
C10_CommittedChangeNotified == RunCompleted => owed = {}

\* the rows of the table that carry the key
RowsWithKey(t, key) == {i \in 1..Len(t) : t[i].type_id = Text(key)}

\* C11: with one reconciler, whatever the snapshot (rows that repeat a TypeID
\* included) and however many runs were made, no two rows of liste_eratv
\* carry the same TypeID.
C11_UniqueTypeId ==
    \A i, j \in 1..Len(table) : table[i].type_id = table[j].type_id => i = j

\* a second run has ended on a snapshot whose two rows share a TypeID that the
\* table did not hold: the first run inserted it once
C11_Witness ==
    /\ RunCompleted
    /\ synced
    /\ Len(file.rows) = 2
    /\ RowVals(file.rows[1]).type_id = RowVals(file.rows[2]).type_id
    /\ Cardinality(RowsWithKey(table, RowVals(file.rows[1]).type_id)) = 1
    /\ Len(table) = 2

\* the reconciler is in start_consuming, waiting for the next delivery
AwaitingDelivery == pc = "idle" /\ queue_in # <<>>

\* C15 as stated: once connect_postgres has used its 10 attempts without
\* reaching the store, the reconciler process terminates; it is not back in
\* its consuming loop with the message waiting to be delivered again.
C15_StoreUnreachableIsFatal == fault = "connect" => ~AwaitingDelivery

\* C18 as stated: a row whose write the store rejects is skipped; the run
\* goes on with the rows after it and is not ended by a negative
\* acknowledgement that requeues the message.
C18_FailedRowSkipped == fault = "store" => (~RunFailed /\ queue_in = <<>>)

\* a run went through a snapshot with every column whose rows carry pairwise
\* different TypeIDs
DistinctTypeIds ==
    /\ ~MissingColumn(file)
    /\ \A i, j \in 1..Len(file.rows) :
          RowVals(file.rows[i]).type_id = RowVals(file.rows[j]).type_id => i = j

\* the columns of liste_eratv that hold the tracked fields
DbTracked ==
    {"authorisation_document_reference_ein", "type_name",
     "authorisation_status", "last_update", "url_tv"}

\* C20 as stated: after a completed run on a snapshot with distinct TypeIDs,
\* each snapshot row has exactly one table row with its TypeID, and every
\* tracked field of that row equals the normalized snapshot value; from an
\* empty table the run leaves as many rows as the snapshot has.
C20_TableEqualsSnapshot ==
    (RunCompleted /\ DistinctTypeIds) =>
        /\ \A i \in 1..Len(file.rows) :
              LET vals == RowVals(file.rows[i])
                  held == RowsWithKey(table, vals.type_id)
              IN  /\ Cardinality(held) = 1
                  /\ \A r \in held : \A c \in DbTracked : table[r][c] = Text(vals[c])
        /\ table0 = <<>> => Len(table) = Len(file.rows)

\* C20, amended: every tracked field of the table row has the normalized
\* snapshot value once it is normalized itself (a row classified UNCHANGED
\* keeps the text it had).
C20_TableMatchesSnapshot ==
    (RunCompleted /\ DistinctTypeIds) =>
        /\ \A i \in 1..Len(file.rows) :
              LET vals == RowVals(file.rows[i])
                  held == RowsWithKey(table, vals.type_id)
              IN  /\ Cardinality(held) = 1
                  /\ \A r \in held : \A c \in DbTracked :
                        normalize(table[r][c]) = vals[c]
        /\ table0 = <<>> => Len(table) = Len(file.rows)

\* a run over two rows with different TypeIDs has ended: one row was updated,
\* the other inserted
C20_Witness ==
    /\ RunCompleted
    /\ DistinctTypeIds
    /\ Len(file.rows) = 2
    /\ \E i, j \in 1..Len(log) : IsUpdate(log[i]) /\ IsInsert(log[j])

\* the table an iteration left behind: the one the next iteration started
\* from, or the current table for the last iteration made
TableAfter(k) == IF k < Len(log) THEN log[k + 1].before ELSE table

\* C21: an iteration changes no row that carries another TypeID than its
\* snapshot row, and no row at all when it classifies UNCHANGED; no iteration
\* removes a row, so every row the table held when the run began is still
\* there with its TypeID, and is unchanged when the snapshot rows iterated
\* so far do not name it.
C21_Frame ==
    /\ \A k \in 1..Len(log) :
          LET before == log[k].before
              after == TableAfter(k)
          IN  /\ Len(after) >= Len(before)
              /\ \A i \in 1..Len(before) :
                    /\ after[i].type_id = before[i].type_id
                    /\ (before[i].type_id # Text(log[k].key)
                          \/ log[k].class = "UNCHANGED") => after[i] = before[i]
    /\ Len(table) >= Len(table0)
    /\ \A i \in 1..Len(table0) :
          /\ table[i].type_id = table0[i].type_id
          /\ (\A k \in 1..Len(log) : table0[i].type_id # Text(log[k].key))
                => table[i] = table0[i]

\* a completed run inserted a record while the table held a row that the
\* snapshot does not name
C21_Witness ==
    /\ RunCompleted
    /\ Len(table0) = 1
    /\ Len(log) >= 1
    /\ \A k \in 1..Len(log) : table0[1].type_id # Text(log[k].key)
    /\ \E k \in 1..Len(log) : IsInsert(log[k])
    /\ Len(table) = 2

\* the positions of the snapshot rows that carry the key
RowsOfKey(key) ==
    {i \in 1..Len(file.rows) : RowVals(file.rows[i]).type_id = key}

\* the keys that several snapshot rows carry with different field values
ConflictingKeys ==
    {key \in {RowVals(file.rows[i]).type_id : i \in 1..Len(file.rows)} :
        \E i, j \in RowsOfKey(key) : RowVals(file.rows[i]) # RowVals(file.rows[j])}

\* C22: after a completed run on a snapshot that repeats a TypeID with
\* different field values, the table's row for that TypeID holds the values of
\* the last snapshot row that carries it, and a notification was published
\* for exactly those of its rows that were absent from, or differed from, the
\* table at the moment they were processed.
C22_LastWriterWins ==
    (RunCompleted /\ ~MissingColumn(file)) =>
        \A key \in ConflictingKeys :
            LET last == CHOOSE i \in RowsOfKey(key) : \A j \in RowsOfKey(key) : j <= i
                vals == RowVals(file.rows[last])
                changes == SelectSeq(log, IsChange)
            IN  /\ Cardinality(RowsWithKey(table, key)) = 1
                /\ \A r \in RowsWithKey(table, key) :
                      \A c \in DbTracked : table[r][c] = Text(vals[c])
                /\ Len(published) = Len(changes)
                /\ \A n \in 1..Len(changes) : published[n] = changes[n].vals.url_tv
                /\ \A i \in RowsOfKey(key) :
                      IsChange(log[i]) <=> (~Present(i) \/ Differs(i))

\* a completed run over two rows with one TypeID and different values wrote
\* both and published two notifications
C22_Witness ==
    /\ RunCompleted
    /\ ~MissingColumn(file)
    /\ ConflictingKeys # {}
    /\ Len(log) = 2
    /\ IsChange(log[1]) /\ IsUpdate(log[2])
    /\ Len(published) = 2

\* the position in log of the n-th iteration that wrote
ChangeIndex(n) ==
    CHOOSE i \in 1..Len(log) :
        /\ IsChange(log[i])
        /\ Cardinality({j \in 1..i : IsChange(log[j])}) = n

\* the iteration at position i left its values committed in the table
Durable(i) ==
    \E r \in RowsWithKey(TableAfter(i), log[i].key) :
        \A c \in DbTracked : TableAfter(i)[r][c] = Text(log[i].vals[c])

\* C23: in every state the notifications published in the run are, in order,
\* those of iterations whose INSERT or UPDATE is committed and whose TypeID
\* the table still holds; an iteration that did not commit a write published
\* nothing, and only the iteration whose basic_publish raised has a committed
\* write without a notification.
C23_PublishAfterCommit ==
    LET changes == SelectSeq(log, IsChange)
    IN  /\ Len(published) <= Len(changes)
        /\ Len(published) < Len(changes) =>
              (fault = "publish" /\ Len(published) = Len(changes) - 1)
        /\ \A n \in 1..Len(published) :
              /\ published[n] = log[ChangeIndex(n)].vals.url_tv
              /\ Durable(ChangeIndex(n))
              /\ RowsWithKey(table, log[ChangeIndex(n)].key) # {}

\* the first row was written and notified, the write of the second row was
\* refused by the store: the run failed with one notification published
C23_Witness ==
    /\ RunFailed
    /\ fault = "store"
    /\ Len(file.rows) = 2
    /\ Len(log) = 1
    /\ Len(published) = 1

\* ------------------------------------------------------------------------
\* Properties of two concurrent reconcilers
\* ------------------------------------------------------------------------
\* C12 as stated: two instances whose snapshots carry the same TypeID, absent
\* from the table, leave at most one row with that TypeID under every
\* interleaving of their SELECT, INSERT/UPDATE and commit, and neither run
\* ends in the except branch because of the other's write.
C12_ConcurrentInsertSafe ==
    /\ \A w \in Workers :
          Cardinality(RowsWithKey(shared, RowVals(snapshots[w]).type_id)) <= 1
    /\ \A w \in Workers : w_pc[w] # "aborted"

\* ------------------------------------------------------------------------
\* Properties of the consuming stages
\* ------------------------------------------------------------------------
\* the reconciler's callback ended in basic_ack only after process_csv went
\* through every row without raising, and in basic_nack after a raise
ReconcilerSettles ==
    /\ disp = "ack" => (fault = "none" /\ idx = Len(file.rows))
    /\ (pc = "idle" /\ fault # "none") => disp = "nack"

\* the processing of the fetcher's last delivery succeeded
FetchSucceeded ==
    LET parts == split1(Strip(f_last.body))
    IN  Len(parts) = 2 /\ scrape_xml_ok(parts[2], f_last.page, f_last.xml)

FetcherSettles ==
    /\ f_last.outcome = "ack" => FetchSucceeded
    /\ (f_last.outcome # "none" /\ ~FetchSucceeded) => f_last.outcome = "nack"

IngestSettles ==
    /\ i_last.outcome = "ack" => ~i_last.raised
    /\ i_last.raised => i_last.outcome = "nack"

\* C13 as stated: in the reconciler, the detail-page fetcher and ingest, a
\* delivery is acknowledged only after its processing succeeded and is
\* negatively acknowledged when processing raised.
C13_AckOnlyAfterSuccess == ReconcilerSettles /\ FetcherSettles /\ IngestSettles

\* C14 as stated: an exception raised while a message is processed ends in a
\* negative acknowledgement that puts the message back on its queue, and the
\* stage keeps consuming; no stage's consuming loop is terminated by it.
C14_ExceptionKeepsConsuming ==
    /\ i_state # "terminated"
    /\ i_last.raised => (parsed_queue # <<>> /\ Head(parsed_queue) = i_last.body)
    /\ (pc = "idle" /\ fault # "none") => (queue_in # <<>> /\ disp = "nack")
    /\ f_last.outcome = "nack" => (vehicle_pages # <<>> /\ Head(vehicle_pages) = f_last.body)

\* C17 as stated: a parsed-record message processed twice leaves items as it
\* was after the first processing: no two rows of items hold the same record.
C17_RedeliveryKeepsItems ==
    \A i, j \in 1..Len(items) : items[i] = items[j] => i = j

\* ------------------------------------------------------------------------
\* Properties of the retry helpers
\* ------------------------------------------------------------------------
AllRetried == \A i \in 1..Len(h_trace) : h_trace[i] = "retried"

\* C16: a helper makes at most Budget attempts (10 for connect_rabbitmq and
\* connect_postgres, 3 for safe_get, 5 for send_csv_ready_message); it returns
\* exactly at its first successful attempt, which is its last attempt; and
\* when all Budget attempts failed with an error it retries, it has raised.
C16_RetryBounded ==
    /\ h_attempt <= Budget(helper)
    /\ Len(h_trace) = h_attempt
    /\ \A i \in 1..Len(h_trace) :
          h_trace[i] = "ok" => (i = h_attempt /\ h_result = "returned")
    /\ h_result = "returned" =>
          (h_attempt >= 1 /\ h_trace[h_attempt] = "ok")
    /\ (h_attempt = Budget(helper) /\ AllRetried) => h_result = "raised"
    /\ h_result = "raised" => (h_attempt = Budget(helper) /\ AllRetried)

\* safe_get has raised after three attempts that timed out or were refused
C16_Witness ==
    /\ helper = "fetcher.safe_get"
    /\ h_result = "raised"
    /\ h_attempt = safe_get_max_retries
    /\ AllRetried

\* ------------------------------------------------------------------------
\* Properties of the payload of the list-ready message
\* ------------------------------------------------------------------------
\* the last component of a path: its longest suffix without "/"
LastComponent(p) ==
    CHOOSE s \in {SubSeq(p, i, Len(p)) : i \in 1..Len(p) + 1} :
        /\ \A k \in 1..Len(s) : s[k] # "/"
        /\ Len(s) = Len(p) \/ p[Len(p) - Len(s)] = "/"

\* C19 as stated: for every path P the payloads P and "CSV ready: " + P make
\* process_csv open the same file, the one named by the last component of P
\* inside DATA_DIR.
C19_MarkerResolvesSameFile ==
    opened # <<>> =>
        /\ opened[2] = opened[1]
        /\ opened[1] = DATA_DIR \o <<"/">> \o LastComponent(csv_path)

\* ------------------------------------------------------------------------
\* Properties of the list fetcher
\* ------------------------------------------------------------------------
\* C24: the list-ready message is on the queue only when the CSV was written,
\* and it is the one message naming that CSV; a run in which the connection,
\* the download or the parsing raised published nothing; and once main has
\* ended no connection is left open: the connection made is closed whether
\* the try block ended normally or by an exception.
C24_AnnounceAfterWrite ==
    /\ l_sent # <<>> =>
          /\ l_csv.written
          /\ l_sent = <<ReadyMessage(CsvPathToday)>>
    /\ l_fault \in {"connect", "download", "parse"} => l_sent = <<>>
    /\ l_pc = "exit" => l_conn # "open"
    /\ (l_pc = "exit" /\ l_fault # "connect") => l_conn = "closed"

\* the export had no Result element: parsing raised, nothing was written or
\* announced, and the connection is closed
C24_Witness ==
    /\ l_pc = "exit"
    /\ l_fault = "parse"
    /\ l_site.wellformed
    /\ ~l_csv.written
    /\ l_sent = <<>>
    /\ l_conn = "closed"

\* ------------------------------------------------------------------------
\* Properties of one delivery to the detail-page fetcher
\* ------------------------------------------------------------------------
\* C25: every document-ready message published names a file already saved;
\* the delivery is acknowledged only with its message published and nothing
\* raised; safe_get never makes more than max_retries requests; and when all
\* of them ended in a timeout or a connection error, the delivery published
\* nothing and ended in basic_nack with requeue.
C25_SavePublishAck ==
    /\ \A n \in 1..Len(d_published) : d_published[n] \in d_saved
    /\ d_disp = "ack" => (Len(d_published) = 1 /\ d_fault = "none")
    /\ d_gets <= safe_get_max_retries
    /\ d_fault = "fetch" =>
          /\ d_gets = safe_get_max_retries
          /\ d_exc \in {"ReadTimeout", "ConnectionError"}
          /\ d_published = <<>>
          /\ d_disp = "nack_requeue"

\* three requests in a row timed out or were refused: nothing published,
\* the message negatively acknowledged with requeue
C25_Witness ==
    /\ d_pc = "done"
    /\ d_fault = "fetch"
    /\ d_gets = safe_get_max_retries
    /\ d_published = <<>>
    /\ d_disp = "nack_requeue"

\* ------------------------------------------------------------------------
\* Properties of the detail-page fetcher
\* ------------------------------------------------------------------------
\* a notification that names a URL, bare or after "TypeID|"
WellFormed(body) ==
    LET message == Strip(body)
        bars == {i \in 1..Len(message) : message[i] = "|"}
    IN  IF bars = {} THEN message # <<>>
        ELSE /\ message[1] # "|"
             /\ message[Len(message)] # "|"

\* C3 as stated: a well-formed notification, framed "TypeID|URL" or a bare
\* URL, whose document the site serves is acknowledged, never negatively
\* acknowledged.
C3_EitherFramingAccepted ==
    (WellFormed(f_last.body) /\ f_last.page = "link" /\ f_last.xml = "ok")
        => f_last.outcome = "ack"

====
